---- MODULE Spec2Model ----
(***************************************************************************)
(* Model of Prefix32 (src/rust/src/prefix32.rs): the IPv4 prefix-length    *)
(* constructor `new`, the family hook `from`, the dotted-decimal formatter *)
(* `to_ip_str` and the netmask parser `parse_netmask`.                     *)
(*                                                                         *)
(* A Rust String is a sequence of one-character strings, so that format!,  *)
(* split(".") and parse::<u8>() are real conversions.  A call result is a  *)
(* record [kind, prefix, text]: kind is "Ok", "Err", "Str" (a plain String *)
(* return) or "Panic" (the thread unwinds / the process aborts); prefix is *)
(* <<>> or a one-element sequence holding the ::Prefix record; text is the *)
(* returned String, the Err payload or the panic message.                  *)
(***************************************************************************)
EXTENDS Integers, Sequences, FiniteSets, TLC

\* ------------------------------------------------------------------ bounds
\* Largest number of period-separated groups in a generated netmask text.
MaxGroups == 5
\* Longest Vec<u16> handed to to_ip_str.
MaxVecLen == 5

\* ------------------------------------------------------- program constants
U8Max == 255
U16Max == 65535
IpBits == 32
IpPartBits == 8
FirstShift == 24
ShiftStep == 8

\* ---------------------------------------------------------------- strings
Digits == <<"0", "1", "2", "3", "4", "5", "6", "7", "8", "9">>

IsDigit(c) == \E d \in 1..10 : Digits[d] = c

DigitVal(c) == (CHOOSE d \in 1..10 : Digits[d] = c) - 1

\* Display of an unsigned integer ("{}"): decimal, no sign, no padding.
RECURSIVE FmtDec(_)
FmtDec(n) ==
    IF n < 10 THEN <<Digits[n + 1]>>
    ELSE FmtDec(n \div 10) \o <<Digits[(n % 10) + 1]>>

\* str::parse::<u8>(): an optional leading "+", then one or more decimal
\* digits, accumulated with checked arithmetic in u8.
RECURSIVE AccU8(_, _)
AccU8(acc, s) ==
    IF s = <<>> THEN [ok |-> TRUE, val |-> acc, err |-> "none"]
    ELSE IF ~IsDigit(Head(s)) THEN [ok |-> FALSE, val |-> 0, err |-> "InvalidDigit"]
    ELSE IF acc * 10 + DigitVal(Head(s)) > U8Max
         THEN [ok |-> FALSE, val |-> 0, err |-> "PosOverflow"]
    ELSE AccU8(acc * 10 + DigitVal(Head(s)), Tail(s))

ParseU8(s) ==
    IF s = <<>> THEN [ok |-> FALSE, val |-> 0, err |-> "Empty"]
    ELSE IF Len(s) = 1 /\ Head(s) \in {"+", "-"}
         THEN [ok |-> FALSE, val |-> 0, err |-> "InvalidDigit"]
    ELSE IF Head(s) = "+" THEN AccU8(0, Tail(s))
    ELSE AccU8(0, s)

\* str::split("."): the pieces between the periods; always at least one.
RECURSIVE Split(_)
Split(s) ==
    IF \E i \in 1..Len(s) : s[i] = "."
    THEN LET i == CHOOSE j \in 1..Len(s) :
                      s[j] = "." /\ \A k \in 1..(j - 1) : s[k] # "."
         IN  <<SubSeq(s, 1, i - 1)>> \o Split(SubSeq(s, i + 1, Len(s)))
    ELSE <<s>>

\* --------------------------------------------------------- 32-bit integers
\* A u32 is the sequence of its 32 bits, bit 0 (the least significant) first.
Bit(g, i) == (g \div (2 ^ i)) % 2

\* g as u32, for g: u8
U32(g) == [i \in 1..IpBits |-> IF i <= 8 THEN Bit(g, i - 1) ELSE 0]

Zero32 == [i \in 1..IpBits |-> 0]

\* a << s for a shift amount s in 0..31
Shl32(a, s) == [i \in 1..IpBits |-> IF i > s THEN a[i - s] ELSE 0]

\* a >> 1
Shr1(a) == [i \in 1..IpBits |-> IF i < IpBits THEN a[i + 1] ELSE 0]

\* a | b
BitOr(a, b) == [i \in 1..IpBits |-> IF a[i] = 1 \/ b[i] = 1 THEN 1 ELSE 0]

\* a & 0x1
Low(a) == a[1]

\* Mutant of Pack: the groups packed least significant first.
PackLowFirst(ip0, g, s) == BitOr(ip0, Shl32(U32(g), 24 - s))

\* The step of the packing loop: ip | ((g as u32) << shift).
Pack(ip0, g, s) == BitOr(ip0, Shl32(U32(g), s))

\* ------------------------------------------------------------ result values
ErrRange == <<"P","r","e","f","i","x"," ","m","u","s","t"," ","b","e"," ",
              "i","n"," ","r","a","n","g","e"," ","0",".",".","3","2",","," ",
              "g","o","t",":"," ">>

ErrShape == <<"P","r","e","f","i","x"," ","m","u","s","t"," ","b","e"," ",
              "1","1","1"," ","a","n","d"," ","0","0","0"," ">>

NoResult == [kind |-> "None", prefix |-> <<>>, text |-> <<>>]

PanicUnwrapNone == [kind |-> "Panic", prefix |-> <<>>, text |-> <<"unwrap on None">>]

PanicUnwrapErr(e) == [kind |-> "Panic", prefix |-> <<>>, text |-> <<"unwrap on Err", e>>]

PanicShift == [kind |-> "Panic", prefix |-> <<>>, text |-> <<"shift left with overflow">>]

\* The ::Prefix literal of Prefix32::new; in_mask is the value of the external
\* call ::Prefix::in_mask(32), kept symbolic.
MkPrefix(n) ==
    [num |-> n, ip_bits |-> IpBits, ip_part_bits |-> IpPartBits,
     in_mask |-> <<"Prefix::in_mask", IpBits>>,
     vt_from |-> "Prefix32::from", vt_to_ip_str |-> "Prefix32::to_ip_str"]

\* Mutant of New: the range check off by one.
NewOffByOne(n) ==
    IF 0 <= n /\ n <= 33
    THEN [kind |-> "Ok", prefix |-> <<MkPrefix(n)>>, text |-> <<>>]
    ELSE [kind |-> "Err", prefix |-> <<>>, text |-> ErrRange \o FmtDec(n)]

\* Prefix32::new(num: u8) -> Result<::Prefix, String>
New(n) ==
    IF 0 <= n /\ n <= 32
    THEN [kind |-> "Ok", prefix |-> <<MkPrefix(n)>>, text |-> <<>>]
    ELSE [kind |-> "Err", prefix |-> <<>>, text |-> ErrRange \o FmtDec(n)]

\* Mutant of ShapeErr: the message without the netmask text.
ShapeErrNoText(text) == [kind |-> "Err", prefix |-> <<>>, text |-> ErrShape]

\* Err(format!("Prefix must be 111 and 000 {}", &netmask))
ShapeErr(text) == [kind |-> "Err", prefix |-> <<>>, text |-> ErrShape \o text]

\* Mutant of From: the length of the receiver instead of the argument.
FromReceiver(p, n) == New(p.num)

\* Prefix32::from(my: &::Prefix, num: u8): my is unused.
From(p, n) == New(n)

\* Mutant of ToIpStr: the groups in reverse order.
ToIpStrReversed(v) ==
    IF Len(v) < 4 THEN PanicUnwrapNone
    ELSE [kind |-> "Str", prefix |-> <<>>,
          text |-> FmtDec(v[4]) \o <<".">> \o FmtDec(v[3]) \o <<".">>
                   \o FmtDec(v[2]) \o <<".">> \o FmtDec(v[1])]

\* Mutant of ToIpStr: each group narrowed to u8 before formatting.
ToIpStrNarrowed(v) ==
    IF Len(v) < 4 THEN PanicUnwrapNone
    ELSE [kind |-> "Str", prefix |-> <<>>,
          text |-> FmtDec(v[1] % 256) \o <<".">> \o FmtDec(v[2] % 256) \o <<".">>
                   \o FmtDec(v[3] % 256) \o <<".">> \o FmtDec(v[4] % 256)]

\* Mutant of ToIpStr: a missing group formatted as 0 instead of a panic.
ToIpStrLenient(v) ==
    LET at(j) == IF j <= Len(v) THEN v[j] ELSE 0
    IN  [kind |-> "Str", prefix |-> <<>>,
         text |-> FmtDec(at(1)) \o <<".">> \o FmtDec(at(2)) \o <<".">>
                  \o FmtDec(at(3)) \o <<".">> \o FmtDec(at(4))]

\* Prefix32::to_ip_str(my: &Vec<u16>) -> String
ToIpStr(v) ==
    IF Len(v) < 4 THEN PanicUnwrapNone
    ELSE [kind |-> "Str", prefix |-> <<>>,
          text |-> FmtDec(v[1]) \o <<".">> \o FmtDec(v[2]) \o <<".">>
                   \o FmtDec(v[3]) \o <<".">> \o FmtDec(v[4])]

\* ------------------------------------------------------------------ inputs
\* Octets of the generated four-group netmask texts: netmask octets and
\* octets that break the 1*0* shape.
OctetVals == {0, 1, 127, 128, 192, 254, 255}

\* Group texts that are not the Display form of an octet.
OddTexts == {<<"+", "8">>, <<"0", "0", "7">>, <<"-", "1">>}

\* Group texts of the netmask texts with any number of groups.
FewTexts == {<<"0">>, <<"2", "5", "5">>, <<"2", "5", "6">>, <<>>, <<"x">>}

RECURSIVE JoinDots(_)
JoinDots(gs) ==
    IF Len(gs) = 1 THEN gs[1]
    ELSE gs[1] \o <<".">> \o JoinDots(Tail(gs))

FourGroupTexts ==
    LET T == {FmtDec(v) : v \in OctetVals} \cup OddTexts
    IN  {JoinDots(gs) : gs \in [1..4 -> T]}

AnyGroupTexts ==
    UNION {{JoinDots(gs) : gs \in [1..k -> FewTexts]} : k \in 1..MaxGroups}

NetmaskTexts == FourGroupTexts \cup AnyGroupTexts

\* The four 8-bit groups of the netmask with n leading one-bits.
NetmaskGroups(n) ==
    LET ones(j) == IF n >= 8 * j THEN 8 ELSE IF n <= 8 * (j - 1) THEN 0 ELSE n - 8 * (j - 1)
    IN  [j \in 1..4 |-> 256 - 2 ^ (8 - ones(j))]

U16Vals == {0, 255, 256, U16Max}

VecInputs ==
    UNION {[1..k -> U16Vals] : k \in 0..MaxVecLen}
        \cup {NetmaskGroups(n) : n \in 0..IpBits}

\* Receivers of the family hook.
PrefixInputs == {MkPrefix(0), MkPrefix(24), MkPrefix(32)}

\* ------------------------------------------------------------------- state
VARIABLES
    pc,          \* "idle", "split", "nulls", "ones", "done"
    op,          \* the function called last
    num,         \* argument of new / from
    my_prefix,   \* receiver of from, <<>> when none
    my,          \* argument of to_ip_str
    netmask,     \* argument of parse_netmask
    parts,       \* groups the split iterator has still to yield
    shift, ip,   \* locals of the packing loop
    nulls, one_prefix,  \* locals of the two scans
    result       \* value the call returned

vars == <<pc, op, num, my_prefix, my, netmask, parts, shift, ip, nulls,
          one_prefix, result>>

locals == <<parts, shift, ip, nulls, one_prefix>>

Init ==
    /\ pc = "idle"
    /\ op = "none"
    /\ num = 0
    /\ my_prefix = <<>>
    /\ my = <<>>
    /\ netmask = <<>>
    /\ parts = <<>>
    /\ shift = 0
    /\ ip = Zero32
    /\ nulls = 0
    /\ one_prefix = 0
    /\ result = NoResult

\* Prefix32::new(n)
CallNew ==
    /\ pc = "idle"
    /\ \E n \in 0..U8Max :
        /\ num' = n
        /\ result' = New(n)
    /\ pc' = "done"
    /\ op' = "new"
    /\ UNCHANGED <<my_prefix, my, netmask, locals>>

\* Prefix32::from(p, n)
CallFrom ==
    /\ pc = "idle"
    /\ \E p \in PrefixInputs, n \in 0..U8Max :
        /\ my_prefix' = <<p>>
        /\ num' = n
        /\ result' = From(p, n)
    /\ pc' = "done"
    /\ op' = "from"
    /\ UNCHANGED <<my, netmask, locals>>

\* Prefix32::to_ip_str(&v)
CallToIpStr ==
    /\ pc = "idle"
    /\ \E v \in VecInputs :
        /\ my' = v
        /\ result' = ToIpStr(v)
    /\ pc' = "done"
    /\ op' = "to_ip_str"
    /\ UNCHANGED <<num, my_prefix, netmask, locals>>

\* Entry of parse_netmask(text): lines 56-58, up to the first group.
Enter(text) ==
    /\ netmask' = text
    /\ parts' = Split(text)
    /\ shift' = FirstShift
    /\ ip' = Zero32
    /\ nulls' = 0
    /\ one_prefix' = 0
    /\ result' = NoResult
    /\ pc' = "split"
    /\ op' = "parse_netmask"

\* Prefix32::parse_netmask(text) on a text of the caller.
CallParseNetmask ==
    /\ pc = "idle"
    /\ \E text \in NetmaskTexts : Enter(text)
    /\ UNCHANGED <<num, my_prefix, my>>

\* Prefix32::parse_netmask(Prefix32::to_ip_str(&my)): the rendered string is
\* parsed back.
CallParseRendered ==
    /\ pc = "done"
    /\ op = "to_ip_str"
    /\ result.kind = "Str"
    /\ Enter(result.text)
    /\ UNCHANGED <<num, my_prefix, my>>

\* One iteration of the packing loop (lines 58-61).  unwrap() panics on a
\* group that is not a u8.  A shift amount outside 0..31 is an arithmetic
\* overflow: a panic when overflow checks are compiled in, the amount masked
\* to five bits when they are not.
SplitStep ==
    /\ pc = "split"
    /\ parts # <<>>
    /\ LET r == ParseU8(Head(parts))
           more == Tail(parts) # <<>>
       IN  IF ~r.ok
           THEN /\ result' = PanicUnwrapErr(r.err)
                /\ pc' = "done"
                /\ UNCHANGED <<parts, shift, ip>>
           ELSE \/ /\ shift \in 0..31
                   /\ ip' = Pack(ip, r.val, shift)
                   /\ shift' = shift - ShiftStep
                   /\ parts' = Tail(parts)
                   /\ pc' = IF more THEN "split" ELSE "nulls"
                   /\ UNCHANGED result
                \/ /\ shift \notin 0..31
                   /\ ip' = Pack(ip, r.val, shift % 32)
                   /\ shift' = shift - ShiftStep
                   /\ parts' = Tail(parts)
                   /\ pc' = IF more THEN "split" ELSE "nulls"
                   /\ UNCHANGED result
                \/ /\ shift \notin 0..31
                   /\ result' = PanicShift
                   /\ pc' = "done"
                   /\ UNCHANGED <<parts, shift, ip>>
    /\ UNCHANGED <<op, num, my_prefix, my, netmask, nulls, one_prefix>>

\* Mutant of NullsStep: the loop bound off by one (nulls <= 32).
NullsStepOffByOne ==
    /\ pc = "nulls"
    /\ IF nulls <= 32 /\ Low(ip) = 0
       THEN /\ ip' = Shr1(ip)
            /\ nulls' = nulls + 1
            /\ UNCHANGED <<pc, one_prefix>>
       ELSE /\ one_prefix' = 0
            /\ pc' = "ones"
            /\ UNCHANGED <<ip, nulls>>
    /\ UNCHANGED <<op, num, my_prefix, my, netmask, parts, shift, result>>

\* One iteration of the first scan (lines 64-70), or its exit into the
\* second scan (line 71).
NullsStep ==
    /\ pc = "nulls"
    /\ IF nulls < 32 /\ Low(ip) = 0
       THEN /\ ip' = Shr1(ip)
            /\ nulls' = nulls + 1
            /\ UNCHANGED <<pc, one_prefix>>
       ELSE /\ one_prefix' = 0
            /\ pc' = "ones"
            /\ UNCHANGED <<ip, nulls>>
    /\ UNCHANGED <<op, num, my_prefix, my, netmask, parts, shift, result>>

\* One iteration of the second scan (lines 72-80).
OnesStep ==
    /\ pc = "ones"
    /\ nulls < 32
    /\ IF Low(ip) = 1
       THEN /\ one_prefix' = (one_prefix + 1) % (U8Max + 1)
            /\ ip' = Shr1(ip)
            /\ nulls' = nulls + 1
            /\ UNCHANGED <<pc, result>>
       ELSE /\ result' = ShapeErr(netmask)
            /\ pc' = "done"
            /\ UNCHANGED <<ip, nulls, one_prefix>>
    /\ UNCHANGED <<op, num, my_prefix, my, netmask, parts, shift>>

\* return Prefix32::new(one_prefix)  (line 81)
Finish ==
    /\ pc = "ones"
    /\ nulls >= 32
    /\ result' = New(one_prefix)
    /\ pc' = "done"
    /\ UNCHANGED <<op, num, my_prefix, my, netmask, locals>>

\* The caller drops the result; nothing of a call outlives it.
Return ==
    /\ pc = "done"
    /\ pc' = "idle"
    /\ op' = "none"
    /\ num' = 0
    /\ my_prefix' = <<>>
    /\ my' = <<>>
    /\ netmask' = <<>>
    /\ parts' = <<>>
    /\ shift' = 0
    /\ ip' = Zero32
    /\ nulls' = 0
    /\ one_prefix' = 0
    /\ result' = NoResult

Next ==
    \/ CallNew
    \/ CallFrom
    \/ CallToIpStr
    \/ CallParseNetmask
    \/ CallParseRendered
    \/ SplitStep
    \/ NullsStep
    \/ OnesStep
    \/ Finish
    \/ Return

Spec == Init /\ [][Next]_vars

\* ------------------------------------------------------ vocabulary of the claims
Done(o) == pc = "done" /\ op = o

AllDigits(s) == s # <<>> /\ \A i \in 1..Len(s) : IsDigit(s[i])

\* Value of a string of decimal digits.
RECURSIVE DecVal(_)
DecVal(s) ==
    IF s = <<>> THEN 0
    ELSE DecVal(SubSeq(s, 1, Len(s) - 1)) * 10 + DigitVal(s[Len(s)])

\* s is a decimal group with a value in 0..255.
IsOctetText(s) == AllDigits(s) /\ DecVal(s) <= 255

\* s is the decimal form of v: digits only, no leading zero.
IsDecimalOf(s, v) == AllDigits(s) /\ (Len(s) = 1 \/ s[1] # "0") /\ DecVal(s) = v

\* s is empty, non-numeric, negative or greater than 255.
BadGroup(s) ==
    \/ s = <<>>
    \/ \E i \in 1..Len(s) : ~IsDigit(s[i]) /\ s[i] # "+"
    \/ AllDigits(s) /\ DecVal(s) > 255

\* text is made of exactly four period-separated decimal groups in 0..255.
FourOctets(text) ==
    LET gs == Split(text)
    IN  Len(gs) = 4 /\ \A j \in 1..4 : IsOctetText(gs[j])

\* g0*2^24 + g1*2^16 + g2*2^8 + g3 as 32 bits, least significant first.
Packed(text) ==
    LET gs == Split(text)
        g == [j \in 1..4 |-> DecVal(gs[j])]
    IN  [i \in 1..32 |-> Bit(g[4 - ((i - 1) \div 8)], (i - 1) % 8)]

\* w is k one-bits followed by 32-k zero-bits, read from the top bit down.
IsMask(w, k) == \A i \in 1..32 : w[i] = (IF i > 32 - k THEN 1 ELSE 0)

Contiguous(w) == \E k \in 0..32 : IsMask(w, k)

\* Number of trailing zero bits of w.
TrailingZeros(w) ==
    IF \A i \in 1..32 : w[i] = 0 THEN 32
    ELSE (CHOOSE i \in 1..32 : w[i] = 1 /\ \A j \in 1..(i - 1) : w[j] = 0) - 1

\* ------------------------------------------------------------------ claims
\* C1: for a netmask text of exactly four decimal groups in 0..255,
\* parse_netmask packs the groups most significant first into ip, succeeds if
\* and only if ip is k one-bits followed by 32-k zero-bits, and then returns
\* a Prefix of length k.
C1_PackAndAccept ==
    /\ (pc = "nulls" /\ nulls = 0 /\ FourOctets(netmask)) => ip = Packed(netmask)
    /\ (Done("parse_netmask") /\ FourOctets(netmask)) =>
          LET w == Packed(netmask)
          IN  /\ result.kind = "Ok" <=> Contiguous(w)
              /\ result.kind = "Ok" =>
                    /\ Len(result.prefix) = 1
                    /\ IsMask(w, result.prefix[1].num)

C1_Witness ==
    /\ Done("parse_netmask")
    /\ netmask = <<"2","5","5",".","2","5","5",".","2","5","5",".","0">>
    /\ result.kind = "Ok"
    /\ result.prefix[1].num = 24

\* C2: for four valid groups whose packed pattern is not 1*0*, parse_netmask
\* stops at the first 0-bit after the run of ones that follows the trailing
\* zeros, returns an Err whose message ends with the netmask text unchanged,
\* and produces no Prefix.
C2_ShapeError ==
    (Done("parse_netmask") /\ FourOctets(netmask)) =>
        LET w == Packed(netmask)
            tz == TrailingZeros(w)
        IN  ~Contiguous(w) =>
            /\ result.kind = "Err"
            /\ result.prefix = <<>>
            /\ Len(result.text) > Len(netmask)
            /\ SubSeq(result.text, Len(result.text) - Len(netmask) + 1,
                      Len(result.text)) = netmask
            /\ tz < nulls /\ nulls < 32
            /\ \A i \in (tz + 1)..nulls : w[i] = 1
            /\ w[nulls + 1] = 0
            /\ Low(ip) = 0

C2_Witness ==
    /\ Done("parse_netmask")
    /\ netmask = <<"2","5","5",".","2","5","4",".","2","5","5",".","0">>
    /\ result.kind = "Err"
    /\ nulls = 16

\* C3: for every n in 0..32, the netmask groups of n rendered by to_ip_str
\* and parsed back by parse_netmask give Ok with a Prefix of length n.
C3_RoundTrip ==
    \A n \in 0..32 :
        (Done("parse_netmask") /\ my = NetmaskGroups(n)) =>
            /\ result.kind = "Ok"
            /\ Len(result.prefix) = 1
            /\ result.prefix[1].num = n

C3_Witness ==
    /\ Done("parse_netmask")
    /\ my = <<255, 255, 254, 0>>
    /\ result.kind = "Ok"
    /\ result.prefix[1].num = 23

\* C4: for every n in 0..32, new(n) and from(p, n) return Ok with a Prefix
\* of length n, 32 address bits and 8 bits per group, whatever p is.
C4_ConstructInRange ==
    ((Done("new") \/ Done("from")) /\ num \in 0..32) =>
        /\ result.kind = "Ok"
        /\ Len(result.prefix) = 1
        /\ result.prefix[1].num = num
        /\ result.prefix[1].ip_bits = 32
        /\ result.prefix[1].ip_part_bits = 8

C4_Witness ==
    /\ Done("from")
    /\ num = 17
    /\ my_prefix[1].num = 24
    /\ result.kind = "Ok"
    /\ result.prefix[1].num = 17

\* C5: for every u8 n outside 0..32, new(n) returns an Err whose message
\* carries n in decimal, and no Prefix.
C5_ConstructOutOfRange ==
    (Done("new") /\ num \notin 0..32) =>
        /\ result.kind = "Err"
        /\ result.prefix = <<>>
        /\ Len(result.text) > Len(ErrRange)
        /\ IsDecimalOf(SubSeq(result.text, Len(ErrRange) + 1, Len(result.text)), num)

C5_Witness ==
    /\ Done("new")
    /\ num = 33
    /\ result.kind = "Err"

\* C6: when a group of the netmask text is empty, non-numeric, negative or
\* greater than 255, parse_netmask returns an Err value and never panics.
C6_GroupErrorIsValue ==
    (Done("parse_netmask")
        /\ LET gs == Split(netmask) IN \E j \in 1..Len(gs) : BadGroup(gs[j])) =>
        result.kind = "Err"

\* C7: when the netmask text has a number of groups other than four, each a
\* valid octet, parse_netmask fails with an Err and returns no Prefix, and
\* the shift applied to a group is never below 0.
C7_GroupCountRejected ==
    /\ (/\ pc = "split" /\ parts # <<>>
        /\ LET gs == Split(netmask)
           IN  \A j \in 1..Len(gs) : IsOctetText(gs[j])) => shift >= 0
    /\ (/\ Done("parse_netmask")
        /\ LET gs == Split(netmask)
           IN  Len(gs) # 4 /\ \A j \in 1..Len(gs) : IsOctetText(gs[j])) =>
            (result.kind = "Err" /\ result.prefix = <<>>)

\* C8: for exactly four values, to_ip_str returns the decimal forms of the
\* four values in order joined by single periods, whatever their range.
C8_Render ==
    (Done("to_ip_str") /\ Len(my) = 4) =>
        /\ result.kind = "Str"
        /\ LET gs == Split(result.text)
           IN  Len(gs) = 4 /\ \A j \in 1..4 : IsDecimalOf(gs[j], my[j])

C8_Witness ==
    /\ Done("to_ip_str")
    /\ my = <<256, 0, 255, 65535>>
    /\ result.text = <<"2","5","6",".","0",".","2","5","5",".","6","5","5","3","5">>

\* C9 as stated: to_ip_str fails whenever the number of groups is not four,
\* with fewer and with more than four alike.
C9_FailsUnlessFour ==
    (Done("to_ip_str") /\ Len(my) # 4) => result.kind = "Panic"

\* C9 amended: to_ip_str fails (panics, returning no string) whenever it is
\* given fewer than four groups; given more than four it returns the first
\* four formatted and ignores the rest.
C9_FailsWhenFewer ==
    /\ (Done("to_ip_str") /\ Len(my) < 4) =>
          (result.kind = "Panic" /\ result.prefix = <<>>)
    /\ (Done("to_ip_str") /\ Len(my) > 4) =>
          /\ result.kind = "Str"
          /\ LET gs == Split(result.text)
             IN  Len(gs) = 4 /\ \A j \in 1..4 : IsDecimalOf(gs[j], my[j])

C9_Witness ==
    /\ Done("to_ip_str")
    /\ my = <<255, 255, 255>>
    /\ result.kind = "Panic"

\* C10: in the two scans nulls grows by one per consumed bit and stays within
\* 0..32, one_prefix never exceeds nulls, a successful parse has consumed
\* exactly 32 bits with one_prefix = 32 - (trailing zeros), and the value
\* handed to new is in 0..32, so that new never fails inside parse_netmask.
C10_ScanState ==
    op = "parse_netmask" =>
        /\ nulls \in 0..32
        /\ one_prefix \in 0..nulls
        /\ (pc = "nulls" => one_prefix = 0)
        /\ (pc = "done" /\ nulls = 32) => result.kind = "Ok"
        /\ (pc = "done" /\ result.kind = "Ok") =>
              /\ nulls = 32
              /\ result.prefix[1].num = one_prefix
              /\ FourOctets(netmask) =>
                    one_prefix = 32 - TrailingZeros(Packed(netmask))

C10_ScanStep ==
    (pc \in {"nulls", "ones"}) =>
        \/ nulls' = nulls + 1 /\ ip' = Shr1(ip) /\ pc' = pc
        \/ nulls' = nulls /\ ip' = ip /\ pc' # pc

\* C10: the scan invariant holds in every state and every step of the two
\* scans consumes exactly one bit or leaves the scan.
C10_Scan == []C10_ScanState /\ [][C10_ScanStep]_vars

C10_Witness ==
    /\ Done("parse_netmask")
    /\ result.kind = "Ok"
    /\ nulls = 32
    /\ one_prefix = 9

====
